---- MODULE Spec2Model ----
(***************************************************************************)
(* Model of the real-time warning analyser, Scripts/WarningAnalysis.py,    *)
(* of the server that calls it, backend/main.py and backend/api, and of    *)
(* the creation of its database, Scripts/database.py.                      *)
(*                                                                         *)
(* Specifications: Spec (one analyser call after another), SpecConc (two   *)
(* calls on two threads), SpecProject (the projection alone), SpecServer   *)
(* (background tasks and warning requests), SpecTasks (background tasks    *)
(* alone), SpecEmit (two tasks that interleave at the await of sio.emit),  *)
(* SpecHistory (history requests on a stored table), SpecInitDb (init_db). *)
(*                                                                         *)
(* Units.  Coordinates are whole degrees.  Speeds are tenths of a knot.    *)
(* A horizon is counted in units of the time a vessel needs to cover one   *)
(* degree of arc at 0.1 knot with the default conversion factor, so that   *)
(* distance_m / R, expressed in degrees, is speed * factor * seconds.      *)
(* Bearings are 0 (north) and 180 (south): along a meridian the            *)
(* great-circle formula of _calculate_destination_point reduces exactly to *)
(* lat2 = lat1 +/- distance and lon2 = lon1, up to a pole; past a pole the *)
(* latitude folds back and the longitude turns by 180 degrees.             *)
(*                                                                         *)
(* Python values that may be missing or of the wrong type are tagged       *)
(* records: Num(n), Str (a non-numeric string), NoneV (None), Absent (the  *)
(* key is not in the dict).                                                *)
(***************************************************************************)
EXTENDS Integers, Sequences, FiniteSets, TLC

\* ------------------------------------------------------------------ bounds
GridMax == 3       \* input latitudes 0..GridMax on the meridian lon = 1
MaxSpeed == 2      \* input speeds 0..MaxSpeed, in tenths of a knot
MaxSeconds == 2    \* configured horizons 1..MaxSeconds
MaxLevel == 2      \* configured warning levels 1..MaxLevel
MaxLoads == 2      \* zone-file loads per behaviour
MaxReports == 2    \* position reports the server processes
MaxClock == 4      \* the clock runs from StartClock to MaxClock
MaxPoints == 3     \* the most positions a history is meant to return (1000, scaled)

\* ------------------------------------------------------- program constants
LonLimit == 180          \* -180 <= lon <= 180
LatLimit == 90           \* -90 <= lat <= 90
StationaryTenths == 1    \* speed_knots <= 0.1
DefaultFactor == 1       \* knots_to_mps_conversion default, 1.852 / 3.6

\* ------------------------------------------------------------ Python values
Num(n) == [k |-> "num", v |-> n]
Str == [k |-> "str", v |-> 0]
NoneV == [k |-> "none", v |-> 0]
Absent == [k |-> "absent", v |-> 0]

\* ------------------------------------------------------------- zone sources
Paths == {"A", "B"}

Rect(x0, y0, x1, y1) == [kind |-> "rect", x0 |-> x0, y0 |-> y0, x1 |-> x1, y1 |-> y1]
\* right triangle with vertices (x0,y0), (x1,y0), (x0,y1)
Tri(x0, y0, x1, y1) == [kind |-> "tri", x0 |-> x0, y0 |-> y0, x1 |-> x1, y1 |-> y1]

\* The polygons gpd.read_file returns for each source, in file order.
ZoneFile(path) ==
    IF path = "A" THEN << Rect(0, 0, 5, 5) >>
    ELSE IF path = "B" THEN << Tri(0, 0, 3, 3), Rect(0, 4, 2, 7) >>
    ELSE << >>

\* maxx and maxy exchanged
BoundsSwapped(g) == << g.x0, g.y0, g.y1, g.x1 >>
\* shapely bounds of a polygon: (minx, miny, maxx, maxy)
Bounds(g) == << g.x0, g.y0, g.x1, g.y1 >>

\* shapely contains(): the point is in the interior; a boundary point is not
Contains(g, pt) ==
    /\ g.x0 < pt[1]
    /\ g.y0 < pt[2]
    /\ IF g.kind = "rect"
       THEN pt[1] < g.x1 /\ pt[2] < g.y1
       ELSE (pt[1] - g.x0) * (g.y1 - g.y0) + (pt[2] - g.y0) * (g.x1 - g.x0)
                < (g.x1 - g.x0) * (g.y1 - g.y0)

\* sindex.intersection(bounds of a point): boxes that touch the point
BoxHit(b, pt) == b[1] <= pt[1] /\ pt[1] <= b[3] /\ b[2] <= pt[2] /\ pt[2] <= b[4]

\* A loaded GeoDataFrame and a built spatial index are objects; load names
\* the read_file call that produced the object.
NoneObj == [src |-> "None", load |-> 0]
GdfObj(path, n) == [src |-> path, load |-> n]
Geoms(gdf) == ZoneFile(gdf.src)
\* zones_gdf.sindex: one bounding box per row of the frame it is built from
SindexBoxes(idx) == [i \in DOMAIN ZoneFile(idx.src) |-> Bounds(ZoneFile(idx.src)[i])]

\* the exact test left out: any candidate of the index counts as a hit
ContainmentCheckBoxOnly(gdf, idx, pt) ==
    IF idx = NoneObj THEN "AttributeError"
    ELSE LET cand == {i \in DOMAIN SindexBoxes(idx) : BoxHit(SindexBoxes(idx)[i], pt)}
         IN  IF \E i \in cand : i > Len(Geoms(gdf)) THEN "IndexError"
             ELSE IF cand # {} THEN "inside"
             ELSE "outside"

\* Lines 166-169 and 204-206: candidates from the cached index, then exact
\* tests on zones_gdf_cache.iloc[candidates].
ContainmentCheck(gdf, idx, pt) ==
    IF idx = NoneObj THEN "AttributeError"
    ELSE LET cand == {i \in DOMAIN SindexBoxes(idx) : BoxHit(SindexBoxes(idx)[i], pt)}
         IN  IF \E i \in cand : i > Len(Geoms(gdf)) THEN "IndexError"
             ELSE IF \E i \in cand : Contains(Geoms(gdf)[i], pt) THEN "inside"
             ELSE "outside"

\* ------------------------------------------------------ geodesic projection
\* Lines 61-74, in whole degrees, for the inputs on which the formula is
\* exact: a distance of 0 with any bearing that is a multiple of 90 degrees,
\* or a bearing of 0 or 180 degrees with any distance (the distance is the
\* arc distance_m / R in degrees).  There sin(bearing) * sin(distance) = 0,
\* the latitude is asin(sin(lat1 + distance * cos(bearing))), and the
\* longitude is lon1 + atan2(0, cos(lat1 + distance * cos(bearing)) * cos(lat1)):
\* lon1, or lon1 + 180 once the course has passed a pole.
CosBearing(b) == IF b = 0 THEN 1 ELSE IF b = 180 THEN -1 ELSE 0

\* acos in place of asin
AcosSin(x) == 90 - (IF x > 90 THEN 180 - x ELSE IF x < -90 THEN -180 - x ELSE x)
\* asin(sin(x)) for -270 <= x <= 270: asin returns a value in [-90, 90]
AsinSin(x) == IF x > 90 THEN 180 - x ELSE IF x < -90 THEN -180 - x ELSE x

\* the sign of cos(x) for -270 <= x <= 270
CosSign(x) == IF -90 < x /\ x < 90 THEN 1
              ELSE IF x \in {-270, -90, 90, 270} THEN 0
              ELSE -1

_calculate_destination_point(lon, lat, bearing, distance) ==
    LET arc == lat + distance * CosBearing(bearing)
    IN  << lon + (IF CosSign(arc) * CosSign(lat) < 0 THEN 180 ELSE 0), AsinSin(arc) >>

\* ------------------------------------------------------------ configuration
\* config is None, or a dict whose analysis_parameters holds
\* warning_levels_seconds (items in insertion order) and, optionally,
\* knots_to_mps_conversion.
Config(shape, levels, factor) == [shape |-> shape, levels |-> levels, factor |-> factor]
Item(key, val) == [key |-> key, val |-> val]

\* Line 108: {int(k): v for k, v in ... .items()}; int(k) raises ValueError
\* for a key that is not a number.
BadLevelKey(config) == \E i \in DOMAIN config.levels : config.levels[i].key.k # "num"
WARNING_LEVELS(config) ==
    [i \in DOMAIN config.levels |-> << config.levels[i].key.v, config.levels[i].val >>]

\* Line 110
KNOTS_TO_MPS(config) == IF config.factor.k = "absent" THEN DefaultFactor ELSE config.factor.v

\* sorted(items, key=lambda item: item[1]): stable, ascending seconds
InsertBySeconds(sorted, item) ==
    LET n == Cardinality({i \in DOMAIN sorted : sorted[i][2].v <= item[2].v})
    IN  SubSeq(sorted, 1, n) \o << item >> \o SubSeq(sorted, n + 1, Len(sorted))

RECURSIVE SortBySeconds(_)
SortBySeconds(items) ==
    IF items = << >> THEN << >>
    ELSE InsertBySeconds(SortBySeconds(SubSeq(items, 1, Len(items) - 1)), items[Len(items)])

\* the sort left out: the levels are visited in dict order
unsorted_warning_levels(levels) == levels
sorted_warning_levels(levels) == SortBySeconds(levels)

\* ------------------------------------------------------------ the analysis
\* Lines 198-212: the first horizon, in sorted order, whose projected point
\* is outside every candidate polygon gives the level; the loop then stops.
RECURSIVE CheckHorizons(_, _, _, _, _, _, _, _)
CheckHorizons(lv, i, gdf, idx, lon, lat, bearing, speed_mps) ==
    IF i > Len(lv) THEN [level |-> 0, exc |-> "none", tests |-> 0]
    ELSE LET fut == _calculate_destination_point(lon, lat, bearing, speed_mps * lv[i][2].v)
             hit == ContainmentCheck(gdf, idx, fut)
         IN  IF hit \in {"AttributeError", "IndexError"}
             THEN [level |-> 0, exc |-> hit, tests |-> 1]
             ELSE IF hit = "outside"
             THEN [level |-> lv[i][1], exc |-> "none", tests |-> 1]
             ELSE LET rest == CheckHorizons(lv, i + 1, gdf, idx, lon, lat, bearing, speed_mps)
                  IN  [rest EXCEPT !.tests = @ + 1]

\* the path started empty instead of with the current point
BuildPathWithoutStart(lv, lon, lat, bearing, speed_mps) ==
    [i \in DOMAIN lv |->
        _calculate_destination_point(lon, lat, bearing, speed_mps * lv[i][2].v)]

\* one projected point only: the loop left after its first round
BuildPathFirstHorizon(lv, lon, lat, bearing, speed_mps) ==
    << << lon, lat >> >> \o
    (IF lv = << >> THEN << >>
     ELSE << _calculate_destination_point(lon, lat, bearing, speed_mps * lv[1][2].v) >>)

\* Lines 183-186: the current point followed by one projected point per
\* configured level, in sorted order.
BuildPath(lv, lon, lat, bearing, speed_mps) ==
    << << lon, lat >> >> \o
    [i \in DOMAIN lv |->
        _calculate_destination_point(lon, lat, bearing, speed_mps * lv[i][2].v)]

\* What the try block hands back: a returned pair or a raised exception,
\* with the steps it went through.
Step(outcome, level, path, exc, stage, tests, projections) ==
    [outcome |-> outcome, level |-> level, path |-> path, exc |-> exc,
     stage |-> stage, contains_tests |-> tests, projections |-> projections]
Return(level, path, stage, tests, projections) ==
    Step("return", level, path, "none", stage, tests, projections)
Raise(exc, stage, tests, projections) ==
    Step("raise", 0, << >>, exc, stage, tests, projections)

\* current_warning = 1 in place of line 178's current_warning = 0
PredictiveWarningDefaultOne(point_data, config, gdf, idx, lon, lat, speed_knots) ==
    LET speed_mps == speed_knots * KNOTS_TO_MPS(config)
        levels == WARNING_LEVELS(config)
    IN  IF point_data.bearing_deg.k = "absent" THEN Raise("KeyError", "predict", 1, 0)
        ELSE IF \E i \in DOMAIN levels : levels[i][2].k # "num"
        THEN Raise("TypeError", "predict", 1, 0)
        ELSE LET lv == sorted_warning_levels(levels)
                 bearing == point_data.bearing_deg.v
                 path == BuildPath(lv, lon, lat, bearing, speed_mps)
                 found == CheckHorizons(lv, 1, gdf, idx, lon, lat, bearing, speed_mps)
             IN  IF found.exc # "none"
                 THEN Raise(found.exc, "predict", 1 + found.tests, Len(lv) + found.tests)
                 ELSE Return(IF found.level = 0 THEN 1 ELSE found.level, path, "predict",
                             1 + found.tests, Len(lv) + found.tests)

\* Lines 175-214: the vessel is moving and inside a zone.
PredictiveWarning(point_data, config, gdf, idx, lon, lat, speed_knots) ==
    LET speed_mps == speed_knots * KNOTS_TO_MPS(config)
        levels == WARNING_LEVELS(config)
    IN  IF point_data.bearing_deg.k = "absent" THEN Raise("KeyError", "predict", 1, 0)
        ELSE IF \E i \in DOMAIN levels : levels[i][2].k # "num"
        THEN Raise("TypeError", "predict", 1, 0)
        ELSE LET lv == sorted_warning_levels(levels)
                 bearing == point_data.bearing_deg.v
                 path == BuildPath(lv, lon, lat, bearing, speed_mps)
                 found == CheckHorizons(lv, 1, gdf, idx, lon, lat, bearing, speed_mps)
             IN  IF found.exc # "none"
                 THEN Raise(found.exc, "predict", 1 + found.tests, Len(lv) + found.tests)
                 ELSE Return(found.level, path, "predict",
                             1 + found.tests, Len(lv) + found.tests)

\* the limit itself rejected: -180 < lon < 180
LonInRangeStrict(lon) == -LonLimit < lon /\ lon < LonLimit
\* Line 147: -180 <= lon <= 180 and -90 <= lat <= 90, on numbers
LonInRange(lon) == -LonLimit <= lon /\ lon <= LonLimit
LatInRange(lat) == -LatLimit <= lat /\ lat <= LatLimit

\* Line 161: speed_knots is None or speed_knots <= 0.1; line 157 reads an
\* absent speed as 0.
IsStationaryBelow(speed) == speed.k \in {"absent", "none"} \/ speed.v < StationaryTenths
IsStationary(speed) == speed.k \in {"absent", "none"} \/ speed.v <= StationaryTenths

\* Lines 144-173: validation, the stationary short-circuit, the check of the
\* current position.
AnalyzePoint(point_data, config, gdf, idx) ==
    LET lon == point_data.lon
        lat == point_data.lat
        speed == point_data.speed_knots
    IN  IF lon.k = "absent" \/ lat.k = "absent" THEN Raise("KeyError", "validate", 0, 0)
        ELSE IF lon.k # "num" THEN Raise("TypeError", "validate", 0, 0)
        ELSE IF ~LonInRange(lon.v)
        THEN Return(-1, << >>, "validate", 0, 0)
        ELSE IF lat.k # "num" THEN Raise("TypeError", "validate", 0, 0)
        ELSE IF ~LatInRange(lat.v)
        THEN Return(-1, << >>, "validate", 0, 0)
        ELSE IF speed.k = "str" THEN Raise("TypeError", "speed", 0, 0)
        ELSE IF IsStationary(speed)
        THEN Return(0, << << lon.v, lat.v >> >>, "speed", 0, 0)
        ELSE LET hit == ContainmentCheck(gdf, idx, << lon.v, lat.v >>)
             IN  IF hit \in {"AttributeError", "IndexError"}
                 THEN Raise(hit, "current", 1, 0)
                 ELSE IF hit = "outside"
                 THEN Return(1, << << lon.v, lat.v >> >>, "current", 1, 0)
                 ELSE PredictiveWarning(point_data, config, gdf, idx, lon.v, lat.v, speed.v)

\* "and" in place of "or": a cached frame of another source counts as a hit
NeedsLoadWhenEmpty(path, gdf, pth) == pth # path /\ gdf = NoneObj
\* the cache never hits
NeedsLoadAlways(path, gdf, pth) == TRUE
\* Line 114: zones_path_cache != fishing_zones_geojson_path or zones_gdf_cache is None
NeedsLoad(path, gdf, pth) == pth # path \/ gdf = NoneObj

\* a missing file empties the cache
LoadZonesClearOnMissing(path, gdf, pth, idx, existing, fault, n) ==
    LET cache(step, g, p, x, e, r, b) ==
            [zone_step |-> step, gdf |-> g, pth |-> p, idx |-> x,
             exists_checks |-> e, reads |-> r, index_builds |-> b]
    IN  IF ~NeedsLoad(path, gdf, pth) THEN cache("hit", gdf, pth, idx, 0, 0, 0)
        ELSE IF path \notin existing
        THEN cache("missing", NoneObj, "None", NoneObj, 1, 0, 0)
        ELSE IF fault = "read_file" THEN cache("read_failed", gdf, pth, idx, 1, 1, 0)
        ELSE IF fault = "sindex"
        THEN cache("index_failed", GdfObj(path, n), path, idx, 1, 1, 1)
        ELSE cache("loaded", GdfObj(path, n), path, GdfObj(path, n), 1, 1, 1)

\* Lines 112-142: load the zone file unless the cached path is the requested
\* one and a frame is cached.  fault is what the library calls of this load
\* do: "none", "read_file" (gpd.read_file raises) or "sindex" (building the
\* spatial index raises).  n names the frame a successful read creates.
LoadZones(path, gdf, pth, idx, existing, fault, n) ==
    LET cache(step, g, p, x, e, r, b) ==
            [zone_step |-> step, gdf |-> g, pth |-> p, idx |-> x,
             exists_checks |-> e, reads |-> r, index_builds |-> b]
    IN  IF ~NeedsLoad(path, gdf, pth) THEN cache("hit", gdf, pth, idx, 0, 0, 0)
        ELSE IF path \notin existing THEN cache("missing", gdf, pth, idx, 1, 0, 0)
        ELSE IF fault = "read_file" THEN cache("read_failed", gdf, pth, idx, 1, 1, 0)
        ELSE IF fault = "sindex"
        THEN cache("index_failed", GdfObj(path, n), path, idx, 1, 1, 1)
        ELSE cache("loaded", GdfObj(path, n), path, GdfObj(path, n), 1, 1, 1)

\* a handler for lookup errors only: except (KeyError, IndexError)
CatchesLookupErrors(exc) == exc \in {"KeyError", "IndexError"}
\* Lines 216-225: except Exception.  Every exception the body can raise is
\* a subclass of Exception.
Catches(exc) == exc \in {"AttributeError", "ValueError", "KeyError", "TypeError",
                         "IndexError", "ReadError", "IndexBuildError"}

\* Lines 104-225: the whole call.  The result holds what the caller gets
\* (outcome, level, path), the cache the call leaves, and the steps taken.
analyze_realtime_point(point_data, path, config, gdf, pth, idx, existing, fault, n) ==
    LET untouched == [zone_step |-> "not_reached", gdf |-> gdf, pth |-> pth, idx |-> idx,
                      exists_checks |-> 0, reads |-> 0, index_builds |-> 0]
        zones == IF config.shape = "none" \/ BadLevelKey(config)
                 THEN untouched
                 ELSE LoadZones(path, gdf, pth, idx, existing, fault, n)
        body == IF config.shape = "none" THEN Raise("AttributeError", "config", 0, 0)
                ELSE IF BadLevelKey(config) THEN Raise("ValueError", "config", 0, 0)
                ELSE IF zones.zone_step = "missing" THEN Return(-1, << >>, "zones", 0, 0)
                ELSE IF zones.zone_step = "read_failed" THEN Raise("ReadError", "zones", 0, 0)
                ELSE IF zones.zone_step = "index_failed"
                THEN Raise("IndexBuildError", "zones", 0, 0)
                ELSE AnalyzePoint(point_data, config, zones.gdf, zones.idx)
        handled == IF body.outcome = "raise" /\ Catches(body.exc)
                   THEN [body EXCEPT !.outcome = "return", !.level = -1, !.path = << >>]
                   ELSE body
    IN  [outcome |-> handled.outcome, level |-> handled.level, path |-> handled.path,
         exc |-> handled.exc, stage |-> handled.stage,
         contains_tests |-> handled.contains_tests, projections |-> handled.projections,
         zone_step |-> zones.zone_step, exists_checks |-> zones.exists_checks,
         reads |-> zones.reads, index_builds |-> zones.index_builds,
         gdf |-> zones.gdf, pth |-> zones.pth, idx |-> zones.idx]

\* ------------------------------------------------------------------ inputs
LonEdges == {-LonLimit - 1, -LonLimit, LonLimit, LonLimit + 1}
LatEdges == {-LatLimit - 1, -LatLimit, LatLimit, LatLimit + 1}

\* positions on the meridian lon = 1 that crosses the zones
GridPoints == {<< Num(1), Num(y) >> : y \in 0..GridMax}
\* the limits of the coordinate ranges, one step beyond them, and
\* coordinates that are missing or not numbers
EdgePoints ==
    {<< Num(x), Num(1) >> : x \in LonEdges}
      \cup {<< Num(1), Num(y) >> : y \in LatEdges}
      \cup {<< Num(LonLimit), Num(LatLimit) >>, << Absent, Num(1) >>, << Num(1), Str >>}

Speeds == {Num(s) : s \in 0..MaxSpeed}
Bearings == {Num(0), Num(180)}

PointData(c, s, b) == [lon |-> c[1], lat |-> c[2], speed_knots |-> s, bearing_deg |-> b]

\* Complete reports from the grid, and reports with one thing wrong or
\* special: no speed, a speed of None or of the wrong type, no bearing, a
\* position on or beyond a limit, a coordinate missing or of the wrong type.
PointInputs ==
    {PointData(c, s, b) : c \in GridPoints, s \in Speeds, b \in Bearings}
      \cup {PointData(c, s, Num(0)) : c \in GridPoints, s \in {Absent, NoneV, Str}}
      \cup {PointData(c, Num(MaxSpeed), Absent) : c \in GridPoints}
      \cup {PointData(c, s, Num(0)) : c \in EdgePoints, s \in {Absent, Num(MaxSpeed)}}

\* warning_levels_seconds with distinct levels, in any insertion order
LevelItems == {Item(Num(l), Num(s)) : l \in 1..MaxLevel, s \in 1..MaxSeconds}
\* the items of the maps with two levels: the first and the last level, the
\* shortest and the longest horizon
PairItems == {Item(Num(l), Num(s)) : l \in {1, MaxLevel}, s \in {1, MaxSeconds}}
LevelMaps ==
    {<< >>} \cup {<< a >> : a \in LevelItems}
      \cup {<< p[1], p[2] >> : p \in {q \in PairItems \X PairItems : q[1].key # q[2].key}}

Configs ==
    {Config("dict", m, Absent) : m \in LevelMaps}
      \cup {Config("dict", << Item(Num(1), Num(s)) >>, Num(2)) : s \in 1..MaxSeconds}
      \cup {Config("none", << >>, Absent),
            Config("dict", << Item(Str, Num(1)) >>, Absent),
            Config("dict", << Item(Num(1), Str) >>, Absent)}

Faults == {"none", "read_file", "sindex"}

\* ------------------------------------------------------------- the server
\* backend/main.py and backend/api/warnings.py.  Time is counted in ticks: the
\* send interval of the throttle is one tick, a day has DayLen ticks, and the
\* clock of a running server is far from the zero of time.time().
BoatIds == {"B1", "B2"}
BoatNames == {"N1", "N2"}
NoName == "None"       \* boat_name of a report: None (or the empty string)
NullName == "NULL"     \* boat_name of a row inserted without a name

DayLen == 2
StartClock == DayLen
StartOfDay(t) == (t \div DayLen) * DayLen
EndOfDay(t) == StartOfDay(t) + DayLen - 1

NoProjection == [distance |-> -1]
Workers == {"k1", "k2"}
IdleWorker == [at |-> "idle"]
Unset == "unset"
DEFAULT_DB_PATH == "database.db"
DbPaths == {DEFAULT_DB_PATH, "test.db"}
NoFile == [exists |-> FALSE, objects |-> << >>]
NoInit == [path |-> "None"]
NoTask == [boat_id |-> "None"]
NoResponse == [endpoint |-> "none"]

\* ------------------------------------------------------------------- state
VARIABLES
    zones_gdf_cache,             \* line 33
    zones_path_cache,            \* line 36
    zones_spatial_index_cache,   \* line 39
    existing,                    \* the zone files os.path.exists finds
    nloads,                      \* frames created by gpd.read_file so far
    pc,                          \* "idle" or "returned"
    call,                        \* the call that returned last, with its result
    prev_path,                   \* the zone path of the call before it
    prev_missing,                \* that call found its zone file missing
    threads,                     \* concurrent calls: position and locals of each
    boats,                       \* table boats: one row per boat_id, or none
    gps_positions,               \* table gps_positions, in rowid order
    warnings,                    \* table warnings, in rowid order
    last_warning_state,          \* backend/main.py line 75
    last_sent_times,             \* backend/main.py line 74
    clock,                       \* the time of day of the server
    emitted,                     \* the events the last background task emitted
    response,                    \* the response of the request answered last
    task,                        \* the background task that has just ended
    projection,                  \* the last call of _calculate_destination_point
    running,                     \* background tasks that run together: where each is
    gps_sent,                    \* the gps_update events emitted, with their times
    db_env,                      \* the environment variable OCEAN_PROTECT_DB_PATH
    db_files,                    \* the database file of each path, or none
    init_call                    \* the last call of init_db

vars == << zones_gdf_cache, zones_path_cache, zones_spatial_index_cache,
           existing, nloads, pc, call, prev_path, prev_missing, threads,
           boats, gps_positions, warnings, last_warning_state, last_sent_times,
           clock, emitted, response, task, projection,
           running, gps_sent, db_env, db_files, init_call >>

analyzer_vars == << zones_gdf_cache, zones_path_cache, zones_spatial_index_cache,
                    existing, nloads, pc, call, prev_path, prev_missing, threads >>
server_vars == << boats, gps_positions, warnings, last_warning_state, last_sent_times,
                  clock, emitted, response, task >>
emit_vars == << running, gps_sent >>
db_vars == << db_env, db_files, init_call >>
other_vars == << projection, emit_vars, db_vars >>

AnalyzerUnchanged == UNCHANGED << analyzer_vars, other_vars >>
ServerUnchanged == UNCHANGED << server_vars, other_vars >>

Threads == {"t1", "t2"}
IdleThread == [at |-> "idle", path |-> "None", zones_gdf |-> NoneObj, idx |-> NoneObj,
               pair |-> << NoneObj, NoneObj >>, level |-> 0]

NoCall == [outcome |-> "none"]

Init ==
    /\ zones_gdf_cache = NoneObj
    /\ zones_path_cache = "None"
    /\ zones_spatial_index_cache = NoneObj
    /\ existing = Paths
    /\ nloads = 0
    /\ pc = "idle"
    /\ call = NoCall
    /\ prev_path = "None"
    /\ prev_missing = FALSE
    /\ threads = [t \in Threads |-> IdleThread]
    /\ boats = {}
    /\ gps_positions = << >>
    /\ warnings = << >>
    /\ last_warning_state = [b \in BoatIds |-> Absent]
    /\ last_sent_times = [b \in BoatIds |-> Absent]
    /\ clock = StartClock
    /\ emitted = << >>
    /\ response = NoResponse
    /\ task = NoTask
    /\ projection = NoProjection
    /\ running = [k \in Workers |-> IdleWorker]
    /\ gps_sent = << >>
    /\ db_env = Unset
    /\ db_files = [p \in DbPaths |-> NoFile]
    /\ init_call = NoInit

\* One call of analyze_realtime_point by the server (backend/main.py:151).
Evaluate ==
    /\ pc = "idle"
    /\ \E point_data \in PointInputs, path \in Paths, config \in Configs, fault \in Faults :
         \E r \in {analyze_realtime_point(point_data, path, config, zones_gdf_cache,
                                         zones_path_cache, zones_spatial_index_cache,
                                         existing, fault, nloads + 1)} :
         LET loaded == IF r.zone_step \in {"loaded", "index_failed"} THEN 1 ELSE 0
         IN  /\ fault # "none" => r.zone_step \in {"read_failed", "index_failed"}
             /\ nloads + loaded <= MaxLoads
             /\ zones_gdf_cache' = r.gdf
             /\ zones_path_cache' = r.pth
             /\ zones_spatial_index_cache' = r.idx
             /\ nloads' = nloads + loaded
             /\ call' = [point_data |-> point_data, zone_path |-> path, config |-> config,
                         result |-> r, pre_gdf |-> zones_gdf_cache,
                         pre_pth |-> zones_path_cache,
                         pre_idx |-> zones_spatial_index_cache,
                         pre_existing |-> existing, prev_path |-> prev_path,
                         prev_missing |-> prev_missing]
             /\ pc' = "returned"
    /\ UNCHANGED << existing, prev_path, prev_missing, threads >>
    /\ ServerUnchanged

\* The caller takes the returned pair.
TakeResult ==
    /\ pc = "returned"
    /\ pc' = "idle"
    /\ prev_path' = call.zone_path
    /\ prev_missing' = (call.result.zone_step = "missing")
    /\ call' = NoCall
    /\ UNCHANGED << zones_gdf_cache, zones_path_cache, zones_spatial_index_cache,
                    existing, nloads, threads >>
    /\ ServerUnchanged

\* The zone file is removed from, or put back on, the disk between calls.
RemoveZoneFile ==
    /\ pc = "idle"
    /\ \E p \in existing : existing' = existing \ {p}
    /\ UNCHANGED << zones_gdf_cache, zones_path_cache, zones_spatial_index_cache,
                    nloads, pc, call, prev_path, prev_missing, threads >>
    /\ ServerUnchanged

RestoreZoneFile ==
    /\ pc = "idle"
    /\ \E p \in Paths \ existing : existing' = existing \cup {p}
    /\ UNCHANGED << zones_gdf_cache, zones_path_cache, zones_spatial_index_cache,
                    nloads, pc, call, prev_path, prev_missing, threads >>
    /\ ServerUnchanged

Next == Evaluate \/ TakeResult \/ RemoveZoneFile \/ RestoreZoneFile

Spec == Init /\ [][Next]_vars

\* ------------------------------------------------------- concurrent calls
\* Calls of analyze_realtime_point running in several threads of one process.
\* A thread can be preempted between any two bytecodes, so the reads and the
\* writes of the module globals are steps of their own.  Every call is given the
\* same valid report: a vessel at (1, 1), inside a zone of both sources,
\* moving north, and one configured level.
ConcPoint == PointData(<< Num(1), Num(1) >>, Num(2), Num(0))
ConcConfig == Config("dict", << Item(Num(1), Num(1)) >>, Absent)
ConcFuture ==
    _calculate_destination_point(1, 1, 0, 2 * KNOTS_TO_MPS(ConcConfig)
                                            * WARNING_LEVELS(ConcConfig)[1][2].v)

Goto(t, at) == threads' = [threads EXCEPT ![t].at = at]
SeqVarsUnchanged ==
    /\ UNCHANGED << existing, pc, call, prev_path, prev_missing >>
    /\ ServerUnchanged
CacheUnchanged ==
    UNCHANGED << zones_gdf_cache, zones_path_cache, zones_spatial_index_cache, nloads >>

\* A thread enters the function with a zone path.
CallStart(t) ==
    /\ threads[t].at = "idle"
    /\ \E path \in Paths :
         threads' = [threads EXCEPT ![t] = [IdleThread EXCEPT !.at = "l114", !.path = path]]
    /\ CacheUnchanged /\ SeqVarsUnchanged

\* Line 114.  The path is read before the frame, and a frame is stored
\* (line 132) before its path (line 133): when the path read is the requested
\* one the frame read after it is never None, so the two reads are one step.
CheckCache(t) ==
    /\ threads[t].at = "l114"
    /\ IF NeedsLoad(threads[t].path, zones_gdf_cache, zones_path_cache)
       THEN Goto(t, "l115")
       ELSE Goto(t, "l166")
    /\ CacheUnchanged /\ SeqVarsUnchanged

\* Lines 115-122
CheckExists(t) ==
    /\ threads[t].at = "l115"
    /\ IF threads[t].path \in existing
       THEN Goto(t, "l125")
       ELSE threads' = [threads EXCEPT ![t].at = "done", ![t].level = -1]
    /\ CacheUnchanged /\ SeqVarsUnchanged

\* Lines 125-129: zones_gdf = gpd.read_file(...)
ReadFile(t) ==
    /\ threads[t].at = "l125"
    /\ nloads < MaxLoads
    /\ nloads' = nloads + 1
    /\ threads' = [threads EXCEPT ![t].at = "l132",
                                  ![t].zones_gdf = GdfObj(threads[t].path, nloads + 1)]
    /\ UNCHANGED << zones_gdf_cache, zones_path_cache, zones_spatial_index_cache >>
    /\ SeqVarsUnchanged

\* Line 132: zones_gdf_cache = zones_gdf
StoreGdf(t) ==
    /\ threads[t].at = "l132"
    /\ zones_gdf_cache' = threads[t].zones_gdf
    /\ Goto(t, "l133")
    /\ UNCHANGED << zones_path_cache, zones_spatial_index_cache, nloads >>
    /\ SeqVarsUnchanged

\* Line 133: zones_path_cache = fishing_zones_geojson_path
StorePath(t) ==
    /\ threads[t].at = "l133"
    /\ zones_path_cache' = threads[t].path
    /\ Goto(t, "l135")
    /\ UNCHANGED << zones_gdf_cache, zones_spatial_index_cache, nloads >>
    /\ SeqVarsUnchanged

\* Line 135: zones_spatial_index_cache = zones_gdf.sindex
StoreIndex(t) ==
    /\ threads[t].at = "l135"
    /\ zones_spatial_index_cache' = threads[t].zones_gdf
    /\ Goto(t, "l166")
    /\ UNCHANGED << zones_gdf_cache, zones_path_cache, nloads >>
    /\ SeqVarsUnchanged

\* Lines 144-166 and 204: the report is valid and moving; the candidates are
\* taken from zones_spatial_index_cache.  No index: AttributeError, (-1, []).
QueryIndex(t) ==
    /\ threads[t].at \in {"l166", "l204"}
    /\ IF zones_spatial_index_cache = NoneObj
       THEN threads' = [threads EXCEPT ![t].at = "done", ![t].level = -1,
                                       ![t].pair = << zones_gdf_cache, NoneObj >>]
       ELSE threads' = [threads EXCEPT ![t].idx = zones_spatial_index_cache,
                                       ![t].at = IF threads[t].at = "l166"
                                                 THEN "l167" ELSE "l205"]
    /\ CacheUnchanged /\ SeqVarsUnchanged

\* Lines 167-173: the candidates are looked up in zones_gdf_cache and tested.
CheckCurrent(t) ==
    /\ threads[t].at = "l167"
    /\ LET hit == ContainmentCheck(zones_gdf_cache, threads[t].idx, << 1, 1 >>)
       IN  threads' = [threads EXCEPT
               ![t].pair = << zones_gdf_cache, threads[t].idx >>,
               ![t].at = IF hit = "inside" THEN "l204" ELSE "done",
               ![t].level = IF hit = "inside" THEN 0 ELSE IF hit = "outside" THEN 1 ELSE -1]
    /\ CacheUnchanged /\ SeqVarsUnchanged

\* Lines 205-214: the same for the projected point of the one horizon.
CheckFuture(t) ==
    /\ threads[t].at = "l205"
    /\ LET hit == ContainmentCheck(zones_gdf_cache, threads[t].idx, ConcFuture)
       IN  threads' = [threads EXCEPT
               ![t].pair = << zones_gdf_cache, threads[t].idx >>,
               ![t].at = "done",
               ![t].level = IF hit = "inside" THEN 0
                            ELSE IF hit = "outside" THEN WARNING_LEVELS(ConcConfig)[1][1]
                            ELSE -1]
    /\ CacheUnchanged /\ SeqVarsUnchanged

\* The call returns.
CallEnd(t) ==
    /\ threads[t].at = "done"
    /\ threads' = [threads EXCEPT ![t] = IdleThread]
    /\ CacheUnchanged /\ SeqVarsUnchanged

NextConc ==
    \E t \in Threads :
        \/ CallStart(t) \/ CheckCache(t) \/ CheckExists(t) \/ ReadFile(t)
        \/ StoreGdf(t) \/ StorePath(t) \/ StoreIndex(t)
        \/ QueryIndex(t) \/ CheckCurrent(t) \/ CheckFuture(t) \/ CallEnd(t)

SpecConc == Init /\ [][NextConc]_vars

\* ------------------------------------------------------ the server's work
\* A position report (GPSData, backend/main.py lines 94-101); the timestamp
\* is the default, the time the report arrives.
GPSData(boat_id, boat_name, timestamp) ==
    [boat_id |-> boat_id, boat_name |-> boat_name, timestamp |-> timestamp,
     latitude |-> 1, longitude |-> 1]

\* The pairs analyze_realtime_point returns to line 151 for such a report:
\* an error, no warning, the vessel outside, the vessel about to leave.
AnalysisResults ==
    {[level |-> -1, path |-> << >>],
     [level |-> 0, path |-> << << 1, 1 >> >>],
     [level |-> 1, path |-> << << 1, 1 >> >>],
     [level |-> 2, path |-> << << 1, 1 >>, << 1, 2 >> >>]}

\* INSERT OR REPLACE: the row is written anew from the report
UpsertBoatReplace(tbl, data) ==
    {r \in tbl : r.boat_id # data.boat_id}
      \cup {[boat_id |-> data.boat_id,
             boat_name |-> IF data.boat_name # NoName THEN data.boat_name ELSE NullName,
             last_update_time |-> data.timestamp]}
\* Lines 113-135: INSERT INTO boats ... ON CONFLICT(boat_id) DO UPDATE, with
\* the name when the report has one.
UpsertBoat(tbl, data) ==
    IF \E r \in tbl : r.boat_id = data.boat_id
    THEN {IF r.boat_id = data.boat_id
          THEN [r EXCEPT !.boat_name = IF data.boat_name # NoName THEN data.boat_name
                                       ELSE @,
                         !.last_update_time = data.timestamp]
          ELSE r : r \in tbl}
    ELSE tbl \cup {[boat_id |-> data.boat_id,
                    boat_name |-> IF data.boat_name # NoName THEN data.boat_name
                                  ELSE NullName,
                    last_update_time |-> data.timestamp]}

\* Lines 186-190: SELECT boat_name FROM boats WHERE boat_id = ?
StoredName(tbl, boat_id) ==
    IF \E r \in tbl : r.boat_id = boat_id
    THEN (CHOOSE r \in tbl : r.boat_id = boat_id).boat_name
    ELSE NoName

\* Lines 136-142: the row of gps_positions, with the columns the history reads
PositionRow(data) ==
    [boat_id |-> data.boat_id, timestamp |-> data.timestamp,
     latitude |-> data.latitude, longitude |-> data.longitude]

\* Line 210: websocket_send_interval_seconds
SendInterval == 1

\* sqlite3.Error raised while persisting the report (lines 112-146), by the
\* INSERT of the warning or its commit (lines 160-168), by the COUNT of
\* today's warnings (lines 170-182), or by the lookup of the boat's name
\* (lines 184-190)
DbFaults == {"none", "persist", "insert", "count", "name"}

\* Lines 176-180 and warnings.py lines 116-121: timestamp BETWEEN the first
\* and the last instant of today
TodayRows(tbl, now) ==
    {i \in DOMAIN tbl :
        StartOfDay(now) <= tbl[i].timestamp /\ tbl[i].timestamp <= EndOfDay(now)}

\* the error is logged and the task goes on
ProceedsAlways(fault) == TRUE
\* Lines 144-146: the task returns when the report could not be persisted
Proceeds(fault) == fault # "persist"

\* Line 154: last_warning_state.get(data.boat_id, 0)
LastLevel(state, boat_id) ==
    IF state[boat_id].k = "absent" THEN 0 ELSE state[boat_id].v

\* every positive level is recorded
RecordsAnyPositive(warning_level, last_warning_level) == warning_level > 0
\* Lines 155-156
Records(warning_level, last_warning_level) ==
    warning_level # last_warning_level /\ warning_level > 0

\* the level is remembered once its row is stored
SetWarningStateIfStored(state, boat_id, warning_level, inserted) ==
    IF /\ warning_level # LastLevel(state, boat_id)
       /\ (warning_level > 0 => inserted)
    THEN [state EXCEPT ![boat_id] = Num(warning_level)]
    ELSE state
\* Lines 155 and 205: the assignment is in the if of line 155 and after the
\* try of lines 158-204
SetWarningState(state, boat_id, warning_level, inserted) ==
    IF warning_level # LastLevel(state, boat_id)
    THEN [state EXCEPT ![boat_id] = Num(warning_level)]
    ELSE state

\* Lines 106-226: one background task, from the report to the events.
process_gps_data_background ==
    /\ response = NoResponse /\ task = NoTask
    /\ Len(gps_positions) < MaxReports
    /\ \E boat_id \in BoatIds, boat_name \in BoatNames \cup {NoName},
          analysis \in AnalysisResults, fault \in DbFaults :
         LET data == GPSData(boat_id, boat_name, clock)
             persisted == fault # "persist"
             proceeds == Proceeds(fault)
             warning_level == analysis.level
             last_warning_level == LastLevel(last_warning_state, boat_id)
             tries == proceeds /\ Records(warning_level, last_warning_level)
             inserted == tries /\ fault # "insert"
             counted == inserted /\ fault # "count"
             named == counted /\ fault # "name"
             warning_id == Len(warnings) + 1
             row == [id |-> warning_id, boat_id |-> boat_id, timestamp |-> data.timestamp,
                     warning_level |-> warning_level, latitude |-> data.latitude,
                     longitude |-> data.longitude, details |-> analysis.path]
             stored == IF inserted THEN Append(warnings, row) ELSE warnings
             saved == IF persisted THEN UpsertBoat(boats, data) ELSE boats
             name == IF boat_name # NoName THEN boat_name
                     ELSE StoredName(saved, boat_id)
             last_sent == IF last_sent_times[boat_id].k = "absent" THEN 0
                          ELSE last_sent_times[boat_id].v
             sends == proceeds /\ clock - last_sent > SendInterval
             gps_update == [event |-> "gps_update", boat_id |-> boat_id,
                            warning_level |-> warning_level]
             count_update == [event |-> "today_warning_count_update",
                              count |-> Cardinality(TodayRows(stored, clock))]
             warning_created == [event |-> "warning_created", boat_id |-> boat_id,
                                 boat_name |-> name, warning_level |-> warning_level,
                                 id |-> warning_id]
         IN  /\ fault \in {"insert", "count"} => Records(warning_level, last_warning_level)
             /\ fault = "name" =>
                    Records(warning_level, last_warning_level) /\ boat_name = NoName
             /\ boats' = saved
             /\ gps_positions' =
                  IF persisted
                  THEN Append(gps_positions, PositionRow(data))
                  ELSE gps_positions
             /\ warnings' = stored
             /\ last_warning_state' =
                  IF proceeds
                  THEN SetWarningState(last_warning_state, boat_id, warning_level, inserted)
                  ELSE last_warning_state
             /\ last_sent_times' =
                  IF sends THEN [last_sent_times EXCEPT ![boat_id] = Num(clock)]
                  ELSE last_sent_times
             /\ emitted' =
                  (IF sends THEN << gps_update >> ELSE << >>)
                    \o (IF counted THEN << count_update >> ELSE << >>)
                    \o (IF named THEN << warning_created >> ELSE << >>)
             /\ task' = [boat_id |-> boat_id, boat_name |-> boat_name,
                         warning_level |-> warning_level,
                         last_warning_level |-> last_warning_level,
                         fault |-> fault, analysed |-> proceeds, inserted |-> inserted]
    /\ UNCHANGED << clock, response >>
    /\ AnalyzerUnchanged

\* Time passes.
Tick ==
    /\ response = NoResponse /\ task = NoTask
    /\ clock < MaxClock
    /\ clock' = clock + 1
    /\ UNCHANGED << boats, gps_positions, warnings, last_warning_state,
                    last_sent_times, emitted, response, task >>
    /\ AnalyzerUnchanged

\* fetchall() of a SELECT ... ORDER BY timestamp ASC or DESC: the rows by
\* timestamp; rows of one timestamp come in any order.
Orderings(rows, direction) ==
    {s \in [1..Cardinality(rows) -> rows] :
        \A i, j \in 1..Cardinality(rows) :
            i < j => /\ s[i] # s[j]
                     /\ IF direction = "ASC" THEN s[i].timestamp <= s[j].timestamp
                        ELSE s[i].timestamp >= s[j].timestamp}

\* dict(row): the columns of the SELECT list and nothing else
RowDict(row, columns) == [c \in columns |-> row[c]]

Response(endpoint, status, boat_id, start_time, end_time, records) ==
    [endpoint |-> endpoint, status |-> status, boat_id |-> boat_id,
     start_time |-> start_time, end_time |-> end_time, records |-> records]

\* warnings.py line 116
TodayColumns == {"boat_id", "timestamp", "warning_level", "latitude", "longitude", "details"}
\* warnings.py line 31
BoatWarningsColumns == {"timestamp", "latitude", "longitude", "warning_level", "details"}

\* warnings.py lines 103-128: GET /api/warnings/today
get_today_warnings ==
    /\ response = NoResponse /\ task = NoTask
    /\ \E db_error \in BOOLEAN :
         IF db_error
         THEN response' = Response("today", 500, "None", StartOfDay(clock),
                                   EndOfDay(clock), << >>)
         ELSE LET rows == {warnings[i] : i \in TodayRows(warnings, clock)}
              IN  \E s \in Orderings(rows, "DESC") :
                    response' = Response("today", 200, "None", StartOfDay(clock),
                                         EndOfDay(clock),
                                         [i \in DOMAIN s |-> RowDict(s[i], TodayColumns)])
    /\ UNCHANGED << boats, gps_positions, warnings, last_warning_state,
                    last_sent_times, clock, emitted, task >>
    /\ AnalyzerUnchanged

\* start_time and end_time of a request: the first instant of the server, the
\* present instant, or all the time between them
TimeRanges(now) == {<< StartClock, StartClock >>, << now, now >>, << StartClock, now >>}

\* warnings.py lines 14-43: GET /api/boats/{boat_id}/warnings
get_boat_warnings ==
    /\ response = NoResponse /\ task = NoTask
    /\ \E boat_id \in BoatIds, range \in TimeRanges(clock), db_error \in BOOLEAN :
         LET start_time == range[1]
             end_time == range[2]
         IN
         IF db_error
         THEN response' = Response("boat_warnings", 500, boat_id, start_time, end_time, << >>)
         ELSE LET rows == {warnings[i] : i \in
                            {j \in DOMAIN warnings :
                               /\ warnings[j].boat_id = boat_id
                               /\ start_time <= warnings[j].timestamp
                               /\ warnings[j].timestamp <= end_time}}
              IN  \E s \in Orderings(rows, "ASC") :
                    response' = Response("boat_warnings", 200, boat_id, start_time, end_time,
                                         [i \in DOMAIN s |-> RowDict(s[i], BoatWarningsColumns)])
    /\ UNCHANGED << boats, gps_positions, warnings, last_warning_state,
                    last_sent_times, clock, emitted, task >>
    /\ AnalyzerUnchanged

\* The client has its response.
TakeResponse ==
    /\ response # NoResponse
    /\ response' = NoResponse
    /\ UNCHANGED << boats, gps_positions, warnings, last_warning_state,
                    last_sent_times, clock, emitted, task >>
    /\ AnalyzerUnchanged

\* The task is over and the connected clients have its events (sio.emit has
\* returned).
TakeEvents ==
    /\ task # NoTask
    /\ task' = NoTask
    /\ emitted' = << >>
    /\ UNCHANGED << boats, gps_positions, warnings, last_warning_state,
                    last_sent_times, clock, response >>
    /\ AnalyzerUnchanged

NextServer ==
    \/ process_gps_data_background \/ TakeEvents \/ Tick
    \/ get_today_warnings \/ get_boat_warnings \/ TakeResponse

SpecServer == Init /\ [][NextServer]_vars

\* The background tasks alone: no client asks for the warnings.
NextTasks == process_gps_data_background \/ TakeEvents \/ Tick

SpecTasks == Init /\ [][NextTasks]_vars

\* --------------------------------------------------- the database file
\* database.py lines 54-104: the tables and indexes, in the order of their
\* CREATE statements
Schema == << "boats", "gps_positions", "idx_gps_boat_id", "idx_gps_timestamp",
             "warnings", "idx_warnings_boat_id", "idx_warnings_timestamp" >>

\* database.py line 24: os.environ.get(DB_PATH_ENV_VAR, DEFAULT_DB_PATH)
resolve_db_path(env) == IF env = Unset THEN DEFAULT_DB_PATH ELSE env

\* Where sqlite3.Error is raised in the try of lines 47-110: by connect (0),
\* by the k-th CREATE statement (k), or nowhere (Completed).
Completed == Len(Schema) + 1
InitFaults == 0..Completed

\* The file after the try: none if connect failed; otherwise the file, with
\* the objects of the statements that ran (a CREATE statement is committed
\* as it runs: the sqlite3 module opens no transaction for it).
CreatedFile(failed_at) ==
    IF failed_at = 0 THEN NoFile
    ELSE [exists |-> TRUE, objects |-> SubSeq(Schema, 1, failed_at - 1)]

\* database.py lines 26-116
init_db ==
    /\ \E failed_at \in InitFaults :
         LET db_path == resolve_db_path(db_env)
         IN  IF db_files[db_path].exists
             THEN /\ init_call' = [path |-> db_path, existed |-> TRUE,
                                   failed_at |-> Completed]
                  /\ failed_at = Completed
                  /\ UNCHANGED db_files
             ELSE /\ init_call' = [path |-> db_path, existed |-> FALSE,
                                   failed_at |-> failed_at]
                  /\ db_files' = [db_files EXCEPT ![db_path] = CreatedFile(failed_at)]
    /\ UNCHANGED << db_env, analyzer_vars, server_vars, projection, emit_vars >>

\* tests/test_warnings_api.py line 44, and its undoing: the environment
\* variable is set to the path of a test database, or unset
SetEnv ==
    /\ db_env' = IF db_env = Unset THEN "test.db" ELSE Unset
    /\ UNCHANGED << db_files, init_call, analyzer_vars, server_vars, projection,
                    emit_vars >>

NextInitDb == init_db \/ SetEnv

SpecInitDb == Init /\ [][NextInitDb]_vars

\* ------------------------------------------------ the history of a boat
\* boats.py line 64
MAX_POINTS == MaxPoints
\* enough rows for a step of 2 at line 67
MaxStored == 2 * MAX_POINTS + 1

\* The table gps_positions of a server that has stored n reports of boat B1,
\* or n - 1 of B1 and then one of B2, with timestamps that rise or fall in
\* the order of arrival.
StoredPositions ==
    {[i \in 1..n |->
        PositionRow(GPSData(IF other /\ i = n THEN "B2" ELSE "B1", NoName,
                            IF rising THEN i ELSE n + 1 - i))] :
        n \in 0..MaxStored, rising \in BOOLEAN, other \in BOOLEAN}

InitHistory ==
    /\ zones_gdf_cache = NoneObj
    /\ zones_path_cache = "None"
    /\ zones_spatial_index_cache = NoneObj
    /\ existing = Paths
    /\ nloads = 0
    /\ pc = "idle"
    /\ call = NoCall
    /\ prev_path = "None"
    /\ prev_missing = FALSE
    /\ threads = [t \in Threads |-> IdleThread]
    /\ boats = {}
    /\ gps_positions \in StoredPositions
    /\ warnings = << >>
    /\ last_warning_state = [b \in BoatIds |-> Absent]
    /\ last_sent_times = [b \in BoatIds |-> Absent]
    /\ clock = StartClock
    /\ emitted = << >>
    /\ response = NoResponse
    /\ task = NoTask
    /\ projection = NoProjection
    /\ running = [k \in Workers |-> IdleWorker]
    /\ gps_sent = << >>
    /\ db_env = Unset
    /\ db_files = [p \in DbPaths |-> NoFile]
    /\ init_call = NoInit

\* boats.py lines 50-53: ORDER BY timestamp ASC
InsertByTimestamp(sorted, row) ==
    LET k == Cardinality({i \in DOMAIN sorted : sorted[i].timestamp <= row.timestamp})
    IN  SubSeq(sorted, 1, k) \o << row >> \o SubSeq(sorted, k + 1, Len(sorted))

RECURSIVE SortByTimestamp(_)
SortByTimestamp(rows) ==
    IF rows = << >> THEN << >>
    ELSE InsertByTimestamp(SortByTimestamp(SubSeq(rows, 1, Len(rows) - 1)),
                           rows[Len(rows)])

\* boats.py line 68: positions[::step]
Slice(positions, step) ==
    [i \in 1..((Len(positions) + step - 1) \div step) |-> positions[(i - 1) * step + 1]]

\* boats.py lines 64-72
Thinned(positions) ==
    LET total_points == Len(positions)
    IN  IF total_points > MAX_POINTS
        THEN Slice(positions, total_points \div MAX_POINTS)
        ELSE positions

\* boats.py line 50
HistoryColumns == {"timestamp", "latitude", "longitude"}

\* start_time and end_time of a request: all the rows, all but the earliest,
\* the earliest alone
HistoryRanges == {<< 1, MaxStored >>, << 2, MaxStored >>, << 1, 1 >>}

\* boats.py lines 32-72: GET /api/boats/{boat_id}/history
get_boat_history ==
    /\ response = NoResponse /\ task = NoTask
    /\ \E boat_id \in BoatIds, range \in HistoryRanges, db_error \in BOOLEAN :
         LET start_time == range[1]
             end_time == range[2]
             Selected(r) == /\ r.boat_id = boat_id
                            /\ start_time <= r.timestamp /\ r.timestamp <= end_time
         IN
         IF db_error
         THEN response' = Response("history", 500, boat_id, start_time, end_time, << >>)
         ELSE \E positions \in {SortByTimestamp(SelectSeq(gps_positions, Selected))} :
                response' = Response("history", 200, boat_id, start_time, end_time,
                                     [i \in DOMAIN Thinned(positions) |->
                                        RowDict(Thinned(positions)[i], HistoryColumns)])
    /\ UNCHANGED << boats, gps_positions, warnings, last_warning_state,
                    last_sent_times, clock, emitted, task >>
    /\ AnalyzerUnchanged

NextHistory == get_boat_history \/ TakeResponse

SpecHistory == InitHistory /\ [][NextHistory]_vars

\* ------------------------------------------- background tasks together
\* The tasks of two reports run on one event loop: a task runs alone from its
\* start to the await of line 217 and from there to its end, and the other
\* task may run while it waits in sio.emit.  The reports have no name and
\* the analysis finds no warning for them; the database does not fail.
WaitInEmit(k, boat_id, current_time) ==
    [running EXCEPT ![k] = [at |-> "emit", boat_id |-> boat_id,
                            current_time |-> current_time]]

\* Lines 106-217: from the report to the call of sio.emit, or to the end of a
\* task that sends nothing.
TaskStart(k) ==
    /\ running[k] = IdleWorker
    /\ Len(gps_positions) < MaxReports
    /\ \E boat_id \in BoatIds :
         LET data == GPSData(boat_id, NoName, clock)
             warning_level == 0
             current_time == clock
             last_sent == IF last_sent_times[boat_id].k = "absent" THEN 0
                          ELSE last_sent_times[boat_id].v
         IN  /\ boats' = UpsertBoat(boats, data)
             /\ gps_positions' = Append(gps_positions, PositionRow(data))
             /\ last_warning_state' =
                  SetWarningState(last_warning_state, boat_id, warning_level, FALSE)
             /\ IF current_time - last_sent > SendInterval
                THEN /\ gps_sent' = Append(gps_sent, [boat_id |-> boat_id,
                                                       time |-> current_time])
                     /\ running' = WaitInEmit(k, boat_id, current_time)
                ELSE UNCHANGED << gps_sent, running >>
    /\ UNCHANGED << warnings, last_sent_times, clock, emitted, response, task >>
    /\ UNCHANGED << analyzer_vars, projection, db_vars >>

\* Lines 217-226: sio.emit has returned; line 218 stores the time of the check.
TaskResume(k) ==
    /\ running[k].at = "emit"
    /\ last_sent_times' =
         [last_sent_times EXCEPT ![running[k].boat_id] = Num(running[k].current_time)]
    /\ running' = [running EXCEPT ![k] = IdleWorker]
    /\ UNCHANGED << boats, gps_positions, warnings, last_warning_state, clock,
                    emitted, response, task, gps_sent >>
    /\ UNCHANGED << analyzer_vars, projection, db_vars >>

NextEmit ==
    \/ \E k \in Workers : TaskStart(k)
    \/ \E k \in Workers : TaskResume(k)
    \/ Tick

SpecEmit == Init /\ [][NextEmit]_vars

\* -------------------------------------------------- the projection alone
\* Origins on and between the limits of the coordinates, the bearings of the
\* four cardinal points with a distance of 0, and courses along a meridian.
ProjectLons == {-LonLimit, 0, 1, LonLimit}
ProjectLats == {-LatLimit, 1 - LatLimit, -1, 0, 1, LatLimit - 1, LatLimit}
ProjectCourses ==
    {<< b, 0 >> : b \in {0, 90, 180, 270}}
      \cup {<< b, d >> : b \in {0, 180}, d \in 1..(MaxSpeed * MaxSeconds)}

\* One call of _calculate_destination_point (lines 185 and 200).
Project ==
    /\ \E lon \in ProjectLons, lat \in ProjectLats, course \in ProjectCourses :
         projection' = [lon |-> lon, lat |-> lat, bearing |-> course[1],
                        distance |-> course[2],
                        result |-> _calculate_destination_point(lon, lat, course[1],
                                                                course[2])]
    /\ UNCHANGED << analyzer_vars, server_vars, emit_vars, db_vars >>

NextProject == Project

SpecProject == Init /\ [][NextProject]_vars

\* ---------------------------------------------------------------- properties
Returned == pc = "returned"

\* The point lies in the interior of a polygon of the source's file.
InsideZones(path, pt) == \E i \in DOMAIN ZoneFile(path) : Contains(ZoneFile(path)[i], pt)

\* What the last call was given.
InLon == call.point_data.lon
InLat == call.point_data.lat
InSpeed == call.point_data.speed_knots
InBearing == call.point_data.bearing_deg
InPoint == << InLon.v, InLat.v >>

ValidPoint ==
    /\ InLon.k = "num" /\ -180 <= InLon.v /\ InLon.v <= 180
    /\ InLat.k = "num" /\ -90 <= InLat.v /\ InLat.v <= 90
OutOfRange ==
    \/ InLon.k = "num" /\ (InLon.v < -180 \/ InLon.v > 180)
    \/ InLat.k = "num" /\ (InLat.v < -90 \/ InLat.v > 90)
Moving == InSpeed.k = "num" /\ InSpeed.v > 1
Stationary == InSpeed.k \in {"absent", "none"} \/ (InSpeed.k = "num" /\ InSpeed.v <= 1)
ConfigParses ==
    /\ call.config.shape = "dict"
    /\ \A i \in DOMAIN call.config.levels : call.config.levels[i].key.k = "num"
ConfigValid ==
    /\ ConfigParses
    /\ \A i \in DOMAIN call.config.levels : call.config.levels[i].val.k = "num"

\* The call got past the zone step: the requested source was cached or loaded.
ZonesObtained == call.result.zone_step \in {"hit", "loaded"}
\* ... and the cached index was built from the cached frame of that source.
ZoneSetLoaded ==
    /\ ZonesObtained
    /\ call.result.gdf.src = call.zone_path
    /\ call.result.idx = call.result.gdf

ErrorResult == call.result.level = -1 /\ call.result.path = << >>

\* C1: analyze_realtime_point never raises: every call returns a pair, and a
\* call that fails (an exception inside the body, a missing zone file, invalid
\* or malformed coordinates, speed or configuration) returns (-1, []).
C1_NeverRaises ==
    Returned =>
        /\ call.result.outcome = "return"
        /\ ( \/ call.result.exc # "none"
             \/ call.result.zone_step = "missing"
             \/ ~ConfigParses
             \/ InLon.k # "num" \/ InLat.k # "num" \/ OutOfRange
             \/ InSpeed.k = "str" ) => ErrorResult

C1_Witness ==
    /\ Returned
    /\ call.result.exc = "TypeError"
    /\ call.result.stage = "predict"
    /\ ErrorResult

\* C2: for a valid moving vessel inside a zone of the loaded zone set, when
\* some configured horizon projects outside every zone, the returned level is
\* a level configured with the smallest such horizon.
C2_SmallestOutsideHorizon ==
    ( /\ Returned /\ ZoneSetLoaded /\ ConfigValid /\ ValidPoint /\ Moving
      /\ InBearing.k = "num"
      /\ InsideZones(call.zone_path, InPoint) ) =>
        LET lv == WARNING_LEVELS(call.config)
            mps == InSpeed.v * KNOTS_TO_MPS(call.config)
            out == {i \in DOMAIN lv :
                      ~InsideZones(call.zone_path,
                          _calculate_destination_point(InLon.v, InLat.v, InBearing.v,
                                                       mps * lv[i][2].v))}
        IN  out # {} =>
              \E i \in out : /\ call.result.level = lv[i][1]
                             /\ \A j \in out : lv[i][2].v <= lv[j][2].v

\* level 2 has the shorter horizon; both horizons project outside
C2_Witness ==
    /\ Returned /\ ZoneSetLoaded
    /\ call.config.levels = << Item(Num(1), Num(2)), Item(Num(2), Num(1)) >>
    /\ call.result.stage = "predict"
    /\ call.result.level = 2
    /\ Len(call.result.path) = 3
    /\ ~InsideZones(call.zone_path, call.result.path[3])

\* C3: the cached path, frame and index are all unset, or the frame and the
\* index come from one load of the cached path.
C3_CacheInSync ==
    \/ /\ zones_path_cache = "None"
       /\ zones_gdf_cache = NoneObj
       /\ zones_spatial_index_cache = NoneObj
    \/ /\ zones_gdf_cache # NoneObj
       /\ zones_gdf_cache.src = zones_path_cache
       /\ zones_spatial_index_cache = zones_gdf_cache

C6_OutsideIsLevelOne ==
    ( /\ Returned /\ ZoneSetLoaded /\ ConfigParses /\ ValidPoint /\ Moving
      /\ ~InsideZones(call.zone_path, InPoint) ) =>
        /\ call.result.level = 1
        /\ call.result.path = << InPoint >>

\* no bearing, no level 1 configured, a point inside a bounding box of the index
C6_Witness ==
    /\ Returned /\ ZoneSetLoaded /\ ValidPoint /\ Moving
    /\ InBearing = Absent
    /\ call.config.levels = << Item(Num(2), Num(1)) >>
    /\ call.zone_path = "B" /\ InPoint = << 1, 3 >>
    /\ call.result.level = 1

\* C7: coordinates out of range give (-1, []) whatever else the call is given;
\* coordinates on the limits are valid.
C7_CoordinateRange ==
    Returned =>
        /\ OutOfRange => ErrorResult
        /\ ( /\ ValidPoint /\ ZoneSetLoaded /\ ConfigParses /\ InSpeed.k # "str"
             /\ (InLon.v \in {-180, 180} \/ InLat.v \in {-90, 90}) ) =>
               /\ call.result.level \in {0, 1}
               /\ call.result.path = << InPoint >>

C7_Witness ==
    /\ Returned /\ ZoneSetLoaded /\ ConfigParses
    /\ InLon = Num(181) /\ InLat = Num(1)
    /\ ErrorResult

\* C8 as stated: a zone file that does not exist at the call gives (-1, []).
C8_MissingFileAlwaysError ==
    (Returned /\ call.zone_path \notin call.pre_existing) => ErrorResult

\* C8: a zone file that does not exist at the call gives (-1, []) unless the
\* cache already holds the frame of that path.
C8_MissingFileError ==
    ( /\ Returned /\ call.zone_path \notin call.pre_existing
      /\ (call.pre_pth # call.zone_path \/ call.pre_gdf = NoneObj) ) => ErrorResult

\* the cache holds the other source
C8_Witness ==
    /\ Returned /\ call.zone_path \notin call.pre_existing
    /\ call.pre_pth \notin {call.zone_path, "None"}
    /\ ConfigParses /\ ValidPoint
    /\ ErrorResult

NoZoneIO ==
    /\ call.result.exists_checks = 0
    /\ call.result.reads = 0
    /\ call.result.index_builds = 0
CacheUntouched ==
    /\ zones_gdf_cache = call.pre_gdf
    /\ zones_path_cache = call.pre_pth
    /\ zones_spatial_index_cache = call.pre_idx

\* C9 as stated: the second of two calls in a row with the same zone path
\* checks, reads and indexes nothing, and leaves the cache as it was.
C9_SecondCallNoIO ==
    (Returned /\ call.prev_path = call.zone_path) => (NoZoneIO /\ CacheUntouched)

\* C9: the second of two calls in a row with the same zone path, when the
\* first one left the frame of that path in the cache, checks, reads and
\* indexes nothing, and leaves the cache as it was.
C9_SecondCallHits ==
    ( /\ Returned /\ call.prev_path = call.zone_path
      /\ call.pre_pth = call.zone_path /\ call.pre_gdf # NoneObj ) =>
        (NoZoneIO /\ CacheUntouched)

C9_Witness ==
    /\ Returned /\ call.prev_path = call.zone_path
    /\ call.pre_pth = call.zone_path /\ call.pre_gdf # NoneObj
    /\ call.result.zone_step = "hit"
    /\ call.result.level = 0

\* C10 as stated: every returned path is non-empty and holds the current point.
C10_PathNeverEmpty ==
    Returned =>
        /\ call.result.path # << >>
        /\ (InLon.k = "num" /\ InLat.k = "num") => call.result.path[1] = InPoint

\* C10: the path of every result with a level of 0 or more is non-empty and
\* starts with the current point.
C10_PathStartsAtPoint ==
    (Returned /\ call.result.level >= 0) =>
        /\ call.result.path # << >>
        /\ call.result.path[1] = InPoint

C10_Witness ==
    /\ Returned
    /\ call.result.stage = "predict"
    /\ call.result.level > 0
    /\ Len(call.result.path) = 3
    /\ call.result.path[1] = InPoint

\* C4: no call, whatever the interleaving, tests containment with a frame of
\* one load and the index of another load, or with no index.
C4_AtomicReplacement ==
    \A t \in Threads : threads[t].pair[1] = threads[t].pair[2]

\* ------------------------------------------------- the prediction path
\* The call is for a valid report of a moving vessel inside a zone of the
\* loaded zone set.
MovingInside ==
    /\ Returned /\ ZoneSetLoaded /\ ConfigValid /\ ValidPoint /\ Moving
    /\ InBearing.k = "num"
    /\ InsideZones(call.zone_path, InPoint)

\* the configured horizons, and the k-th smallest of them
Horizons == [i \in DOMAIN call.config.levels |-> call.config.levels[i].val.v]
KthHorizon(k) ==
    CHOOSE s \in {Horizons[i] : i \in DOMAIN Horizons} :
        /\ Cardinality({j \in DOMAIN Horizons : Horizons[j] < s}) < k
        /\ k <= Cardinality({j \in DOMAIN Horizons : Horizons[j] <= s})
\* where the vessel is after that many seconds on its course
ProjectedAt(seconds) ==
    _calculate_destination_point(InLon.v, InLat.v, InBearing.v,
                                 InSpeed.v * KNOTS_TO_MPS(call.config) * seconds)

\* C11: for a valid moving vessel inside a zone, with N configured levels, the
\* path is the current point followed by the N projected points by ascending
\* horizon, whichever level is returned.
C11_PathShape ==
    MovingInside =>
        /\ Len(call.result.path) = Len(call.config.levels) + 1
        /\ call.result.path[1] = InPoint
        /\ \A k \in 1..Len(call.config.levels) :
             call.result.path[k + 1] = ProjectedAt(KthHorizon(k))

\* the loop stopped at the first horizon; the levels are configured in
\* descending-horizon order
C11_Witness ==
    /\ MovingInside
    /\ call.config.levels = << Item(Num(1), Num(2)), Item(Num(2), Num(1)) >>
    /\ call.result.level = 2
    /\ call.result.contains_tests = 2
    /\ Len(call.result.path) = 3
    /\ call.result.path[2] # call.result.path[3]

\* C12: for a valid moving vessel inside a zone, when the projected point of
\* every configured horizon is inside a zone (no level configured included),
\* the level is 0.
C12_AllInsideIsLevelZero ==
    ( /\ MovingInside
      /\ \A i \in DOMAIN Horizons :
           InsideZones(call.zone_path, ProjectedAt(Horizons[i])) ) =>
        call.result.level = 0

C12_Witness ==
    /\ MovingInside
    /\ Len(call.config.levels) = 2
    /\ call.result.contains_tests = 3
    /\ call.result.path[3] # InPoint
    /\ call.result.level = 0

\* C13: a returned level of 1 means that the current position is outside
\* every zone or that the projected position at the smallest configured
\* horizon is, whatever the level map.
C13_LevelOneIsNearest ==
    ( /\ Returned /\ ZoneSetLoaded /\ ConfigValid /\ ValidPoint
      /\ call.result.level = 1 ) =>
        \/ ~InsideZones(call.zone_path, InPoint)
        \/ /\ call.config.levels # << >>
           /\ ~InsideZones(call.zone_path, ProjectedAt(KthHorizon(1)))

\* The point lies in the polygon or on its edge (shapely covers()).
Covers(g, pt) ==
    /\ g.x0 <= pt[1]
    /\ g.y0 <= pt[2]
    /\ IF g.kind = "rect"
       THEN pt[1] <= g.x1 /\ pt[2] <= g.y1
       ELSE (pt[1] - g.x0) * (g.y1 - g.y0) + (pt[2] - g.y0) * (g.x1 - g.x0)
                <= (g.x1 - g.x0) * (g.y1 - g.y0)
OnZoneBoundary(path, pt) ==
    \E i \in DOMAIN ZoneFile(path) :
        Covers(ZoneFile(path)[i], pt) /\ ~Contains(ZoneFile(path)[i], pt)

\* C14: a moving vessel exactly on the boundary of a zone polygon counts as
\* inside: it is not given the level 1 of a vessel already outside.
C14_BoundaryIsInside ==
    ( /\ Returned /\ ZoneSetLoaded /\ ConfigParses /\ ValidPoint /\ Moving
      /\ OnZoneBoundary(call.zone_path, InPoint) ) =>
        ~(call.result.level = 1 /\ call.result.stage = "current")

\* C15: a call with out-of-range coordinates returns (-1, []) without
\* checking, reading or indexing the zone file and without changing the cache.
C15_ValidateBeforeZones ==
    (Returned /\ OutOfRange) => (ErrorResult /\ NoZoneIO /\ CacheUntouched)

\* C16: a call whose zone file does not exist returns the error result after
\* one look at the disk, reads and indexes nothing and leaves the cache as it
\* was; the call after it, for a file that exists, is not refused: it gets
\* its zones from the cache or from a load, and from a cache that was in
\* step it gets the zone set of its source.
C16_MissingSourceFrame ==
    /\ (Returned /\ call.result.zone_step = "missing") =>
         /\ ErrorResult
         /\ CacheUntouched
         /\ call.result.exists_checks = 1
         /\ call.result.reads = 0
         /\ call.result.index_builds = 0
    /\ ( /\ Returned /\ call.prev_missing /\ ConfigParses
         /\ call.zone_path \in call.pre_existing
         /\ call.result.exc \notin {"ReadError", "IndexBuildError"} ) =>
         /\ ZonesObtained
         /\ call.result.stage # "zones"
         /\ call.pre_idx = call.pre_gdf => ZoneSetLoaded

\* the source cached before the missing one is asked for again
C16_Witness ==
    /\ Returned /\ call.prev_missing
    /\ call.prev_path # call.zone_path
    /\ call.result.zone_step = "hit"
    /\ ZoneSetLoaded
    /\ call.result.stage = "predict"
    /\ call.result.level = 0

\* C17: with every zone file in place, a call that obtains its zones returns
\* the (level, path) that the same call returns as the first call of the
\* process, whatever the calls before it were.
C17_HistoryIndependent ==
    (Returned /\ ZonesObtained /\ call.pre_existing = Paths) =>
        LET first == analyze_realtime_point(call.point_data, call.zone_path, call.config,
                                            NoneObj, "None", NoneObj, Paths, "none", 1)
        IN  /\ call.result.level = first.level
            /\ call.result.path = first.path

\* points on and around the zones of both sources
ProbePoints == (1..2) \X (-1..8)

\* C18: with the index and the frame of one load, the two-phase check
\* (candidates by bounding box, exact test on the candidates) answers as the
\* exact test on every polygon of the zone set does, for every point.
C18_TwoPhaseIsExhaustive ==
    (Returned /\ ZoneSetLoaded) =>
        \A pt \in ProbePoints :
            ContainmentCheck(call.result.gdf, call.result.idx, pt)
                = IF InsideZones(call.zone_path, pt) THEN "inside" ELSE "outside"

\* a projected point inside the bounding box of the triangle, outside the
\* triangle
C18_Witness ==
    /\ MovingInside
    /\ call.zone_path = "B"
    /\ call.result.level > 0
    /\ call.result.path[2] = << 1, 3 >>
    /\ BoxHit(Bounds(ZoneFile("B")[1]), << 1, 3 >>)
    /\ ~Contains(ZoneFile("B")[1], << 1, 3 >>)

\* ------------------------------------------------------ the warnings API
\* the rows of table warnings a request for a boat and a time range is about
RangeRows(boat_id, start_time, end_time) ==
    {j \in DOMAIN warnings :
        /\ warnings[j].boat_id = boat_id
        /\ start_time <= warnings[j].timestamp
        /\ warnings[j].timestamp <= end_time}

\* C19: GET /api/warnings/today answers with one record for each warning of
\* the current day, and every record holds the id of the warning, its boat_id
\* and warning_level, and the boat_name the boats table has for that boat.
C19_TodayRecords ==
    (response.endpoint = "today" /\ response.status = 200) =>
        /\ \A i \in DOMAIN response.records :
             /\ {"id", "boat_name", "boat_id", "warning_level"}
                  \subseteq DOMAIN response.records[i]
             /\ \E j \in TodayRows(warnings, clock) :
                  /\ warnings[j].id = response.records[i].id
                  /\ warnings[j].boat_id = response.records[i].boat_id
                  /\ warnings[j].warning_level = response.records[i].warning_level
             /\ response.records[i].boat_name
                  = StoredName(boats, response.records[i].boat_id)
        /\ \A j \in TodayRows(warnings, clock) :
             \E i \in DOMAIN response.records : response.records[i].id = warnings[j].id

\* C20: GET /api/boats/{boat_id}/warnings answers with one record for each
\* warning of the boat in the time range, and every record holds the id of
\* the warning, its warning_level, and the boat_name of the boats table.
C20_BoatWarningsRecords ==
    (response.endpoint = "boat_warnings" /\ response.status = 200) =>
        LET rows == RangeRows(response.boat_id, response.start_time, response.end_time)
        IN  /\ \A i \in DOMAIN response.records :
                 /\ {"id", "boat_name", "warning_level"}
                      \subseteq DOMAIN response.records[i]
                 /\ \E j \in rows :
                      /\ warnings[j].id = response.records[i].id
                      /\ warnings[j].warning_level = response.records[i].warning_level
                 /\ response.records[i].boat_name = StoredName(boats, response.boat_id)
            /\ \A j \in rows :
                 \E i \in DOMAIN response.records :
                     response.records[i].id = warnings[j].id

\* C22: for a valid moving vessel inside a zone, the returned level is the
\* numerically smallest of the configured levels whose projected point is
\* outside every zone, whatever the order of levels and horizons.
C22_MostUrgentOutsideLevel ==
    MovingInside =>
        \A i \in DOMAIN call.config.levels :
            ~InsideZones(call.zone_path, ProjectedAt(Horizons[i])) =>
                call.result.level <= call.config.levels[i].key.v

\* ------------------------------------------------------- background tasks
\* A background task has run from its report to its end in this step.
TaskRuns == task = NoTask /\ task' # NoTask
\* the rows the step added to the table warnings
RowsAdded == Len(warnings') - Len(warnings)
\* the events of that name the step emitted
EventsEmitted(name) == Cardinality({i \in DOMAIN emitted' : emitted'[i].event = name})
\* the level the boat of the task had on record before the step
LevelOnRecord == LastLevel(last_warning_state, task'.boat_id)

\* C23 as stated: a row is stored only for a positive level that differs from
\* the level on record; the report that starts a run of one positive level
\* stores exactly one row and the reports that continue it store none; the
\* levels 0 and -1 store none.
C23_OneRowPerRun ==
    [][TaskRuns =>
         /\ RowsAdded \in {0, 1}
         /\ RowsAdded = 1 =>
               task'.warning_level > 0 /\ task'.warning_level # LevelOnRecord
         /\ (task'.analysed /\ task'.warning_level > 0
                /\ task'.warning_level # LevelOnRecord) => RowsAdded = 1
         /\ task'.warning_level = LevelOnRecord => RowsAdded = 0
         /\ task'.warning_level <= 0 => RowsAdded = 0]_vars

\* C23, amended: the same, but the report that starts the run stores its row
\* only if the INSERT succeeds; a run stores at most one row.
C23_AtMostOneRowPerRun ==
    [][TaskRuns =>
         /\ RowsAdded \in {0, 1}
         /\ RowsAdded = 1 =>
               task'.warning_level > 0 /\ task'.warning_level # LevelOnRecord
         /\ (task'.analysed /\ task'.warning_level > 0
                /\ task'.warning_level # LevelOnRecord) =>
               RowsAdded = (IF task'.fault = "insert" THEN 0 ELSE 1)
         /\ task'.warning_level = LevelOnRecord => RowsAdded = 0
         /\ task'.warning_level <= 0 => RowsAdded = 0]_vars

\* the second report of a run: the row of the first is the only one
C23_Witness ==
    /\ task # NoTask
    /\ task.analysed
    /\ task.warning_level > 0
    /\ task.warning_level = task.last_warning_level
    /\ Len(gps_positions) = 2
    /\ Len(warnings) = 1
    /\ warnings[1].boat_id = task.boat_id
    /\ warnings[1].warning_level = task.warning_level

\* C26: when persisting the report fails, the task stops: no analysis, the
\* same last_warning_state and last_sent_times, no row, no event.
C26_PersistErrorStops ==
    [][(TaskRuns /\ task'.fault = "persist") =>
         /\ ~task'.analysed
         /\ UNCHANGED << last_warning_state, last_sent_times, warnings >>
         /\ emitted' = << >>]_vars

\* the report would have stored a warning and been sent to the clients
C26_Witness ==
    /\ task # NoTask
    /\ task.fault = "persist"
    /\ task.warning_level > 0
    /\ task.warning_level # task.last_warning_level
    /\ last_sent_times[task.boat_id] = Absent
    /\ warnings = << >>
    /\ emitted = << >>

C28_EventsMatchRows ==
    [][TaskRuns =>
         /\ EventsEmitted("warning_created") = RowsAdded
         /\ EventsEmitted("today_warning_count_update") = RowsAdded]_vars

\* C29: a report without a name leaves the stored name of its boat as it is,
\* a report with a name stores it, and the table has one row for each boat
\* that has reported and at most one for any boat.
C29_BoatNameKept ==
    [][TaskRuns =>
         /\ (task'.boat_name = NoName /\ StoredName(boats, task'.boat_id) # NoName) =>
               StoredName(boats', task'.boat_id) = StoredName(boats, task'.boat_id)
         /\ (task'.boat_name # NoName /\ task'.fault # "persist") =>
               StoredName(boats', task'.boat_id) = task'.boat_name
         /\ task'.fault # "persist" =>
               \E r \in boats' : /\ r.boat_id = task'.boat_id
                                 /\ r.last_update_time = clock
         /\ \A b \in BoatIds : Cardinality({r \in boats' : r.boat_id = b}) <= 1
         /\ {r \in boats' : r.boat_id # task'.boat_id}
              = {r \in boats : r.boat_id # task'.boat_id}]_vars

\* a report without a name, after one with a name and a later time
C29_Witness ==
    /\ task # NoTask
    /\ task.fault = "none"
    /\ task.boat_name = NoName
    /\ StoredName(boats, task.boat_id) \in BoatNames
    /\ Len(gps_positions) = 2
    /\ gps_positions[1].boat_id = task.boat_id
    /\ gps_positions[1].timestamp < gps_positions[2].timestamp
    /\ \E r \in boats : r.boat_id = task.boat_id /\ r.last_update_time = clock

\* C24: any two gps_update events of one boat are more than the send
\* interval apart, also when the tasks of that boat run together.
C24_Throttled ==
    \A i, j \in DOMAIN gps_sent :
        (i < j /\ gps_sent[i].boat_id = gps_sent[j].boat_id) =>
            gps_sent[j].time - gps_sent[i].time > SendInterval

\* -------------------------------------------------------------- history
\* the stored positions of the boat of the request in its time range
HistoryRows ==
    {i \in DOMAIN gps_positions :
        /\ gps_positions[i].boat_id = response.boat_id
        /\ response.start_time <= gps_positions[i].timestamp
        /\ gps_positions[i].timestamp <= response.end_time}

\* C25: the history holds at most MAX_POINTS positions, by ascending
\* timestamp, and all the stored positions of the range when they are at
\* most MAX_POINTS.
C25_AtMostMaxPoints ==
    (response.endpoint = "history" /\ response.status = 200) =>
        /\ Len(response.records) <= MAX_POINTS
        /\ \A i, j \in DOMAIN response.records :
             i < j => response.records[i].timestamp < response.records[j].timestamp
        /\ \A i \in DOMAIN response.records :
             \E k \in HistoryRows :
                 gps_positions[k].timestamp = response.records[i].timestamp
        /\ Cardinality(HistoryRows) <= MAX_POINTS =>
             \A k \in HistoryRows :
                 \E i \in DOMAIN response.records :
                     response.records[i].timestamp = gps_positions[k].timestamp

\* ------------------------------------------------------------- database
\* C30: from no database file, after any calls of init_db the database of
\* the resolved path has the three tables and their indexes; a call that
\* finds the file changes nothing.
C30_InitDbCreatesSchema ==
    [][init_call' # NoInit =>
         /\ db_files'[init_call'.path] = [exists |-> TRUE, objects |-> Schema]
         /\ (init_call' # init_call /\ init_call'.existed) => db_files' = db_files]_vars

====
